---- MODULE Spec2Model ----
(***************************************************************************)
(* Model of the RAG chatbot server (server.js): the POST /api/ai/chat      *)
(* handler, retrieveUserData, buildRAGPrompt, saveConversation and         *)
(* callGemini.  Every await of the handler is one step of the model: the   *)
(* action that consumes the awaited reply runs the handler up to the next  *)
(* await (or to the response).                                             *)
(*                                                                         *)
(* Strings are modelled by records or by short strings; a date-time is a   *)
(* number of time slots, DayLen slots to a calendar day, NoDate for a null *)
(* datetime column.                                                        *)
(***************************************************************************)
EXTENDS Integers, Sequences, FiniteSets, TLC

VARIABLES
    pc,          \* position of the chat handler: idle, retrieve, generate, saving, done
                 \* (augment/built: buildRAGPrompt run on its own)
    message,     \* req.body.message ("" when missing or empty)
    userId,      \* req.body.userId  ("" when missing or empty)
    apiKey,      \* whether process.env.GEMINI_API_KEY is set
    numModels,   \* length of the candidate list `models` of callGemini
    db,          \* the rows the record store holds for the user
    readIdx,     \* which read of retrieveUserData is awaited (1..4), 0 when none
    userData,    \* the object retrieveUserData is assembling / has returned
    now,         \* `now` of buildRAGPrompt
    prompt,      \* the prompt of this turn
    modelIdx,    \* index of the candidate whose fetch is awaited, 0 when none
    lastError,   \* callGemini's lastError
    aiResponse,  \* the text callGemini returned
    response,    \* what res.json sent
    caught,      \* the error the handler's catch block received (and logged)
    calls,       \* generation-backend calls of this request, in order, with their outcome
    reads,       \* record-store reads issued by this request
    writes,      \* record-store writes issued by this request, with their state
    history,     \* rows of conversation_history
    served       \* requests accepted so far

vars == << pc, message, userId, apiKey, numModels, db, readIdx, userData, now, prompt,
           modelIdx, lastError, aiResponse, response, caught, calls, reads, writes,
           history, served >>

----------------------------------------------------------------------------
(* Bounds *)

MaxModels == 2      \* candidate lists of 1..MaxModels models
MaxRequests == 1    \* chat requests served in one behaviour
MaxTasks == 6       \* rows of the tasks table
MaxTime == 2        \* date-times are 0..MaxTime
DayLen == 2         \* time slots per calendar day
MaxCompleted == 1   \* completed rows of the tasks table

(* Program constants *)

UpcomingLimit == 5
RenderLimit == 3

NoDate == -1
Times == 0..MaxTime

Min(a, b) == IF a < b THEN a ELSE b

----------------------------------------------------------------------------
(* Values *)

NoError == [kind |-> "null", model |-> 0]
NoText == [k |-> "none", m |-> 0]
NoResponse == [k |-> "none", m |-> 0]
FallbackMessage == [k |-> "I'm having trouble right now. Please try again in a moment.", m |-> 0]
NoPrompt == [kind |-> "none"]
GeneratedText(i) == [k |-> "generated", m |-> i]

EmptyProfile == [full_name |-> ""]
EmptyStats == [current_streak_days |-> 0, tasks_completed_total |-> 0]
EmptyUserData == [profile |-> EmptyProfile, tasks |-> << >>, stats |-> EmptyStats,
                  activity |-> << >>]

Priorities == << "Low", "Normal", "High", "Urgent" >>

----------------------------------------------------------------------------
(* buildRAGPrompt *)

DateString(t) == t \div DayLen
TimeString(t) == t % DayLen
Truthy(t) == t.datetime # NoDate

Slice(s, n) == SubSeq(s, 1, Min(n, Len(s)))

todayTasks(tasks, n) ==
    SelectSeq(tasks, LAMBDA t :
        Truthy(t) /\ DateString(t.datetime) = DateString(n) /\ ~t.completed)

overdueTasks(tasks, n) ==
    SelectSeq(tasks, LAMBDA t : Truthy(t) /\ t.datetime < n /\ ~t.completed)

upcomingTasksUnsliced(tasks, n) ==
    SelectSeq(tasks, LAMBDA t : Truthy(t) /\ t.datetime > n /\ ~t.completed)

upcomingTasks(tasks, n) ==
    Slice(SelectSeq(tasks, LAMBDA t : Truthy(t) /\ t.datetime > n /\ ~t.completed),
          UpcomingLimit)

completedTasks(tasks) == SelectSeq(tasks, LAMBDA t : t.completed)
incompleteTasks(tasks) == SelectSeq(tasks, LAMBDA t : ~t.completed)

highPriorityTasks(tasks) ==
    SelectSeq(incompleteTasks(tasks),
              LAMBDA t : t.priority = "High" \/ t.priority = "Urgent")

TodaySection(tasks, n) ==
    LET ts == todayTasks(tasks, n)
    IN  IF Len(ts) > 0
        THEN << [title |-> "TODAY'S TASKS", count |-> Len(ts),
                 items |-> [i \in 1..Len(ts) |->
                     [title |-> ts[i].title, priority |-> ts[i].priority,
                      time |-> TimeString(ts[i].datetime)]]] >>
        ELSE << >>

OverdueSection(tasks, n) ==
    LET ts == overdueTasks(tasks, n)
        shown == Slice(ts, RenderLimit)
    IN  IF Len(ts) > 0
        THEN << [title |-> "OVERDUE TASKS", count |-> Len(ts),
                 items |-> [i \in 1..Len(shown) |->
                     [title |-> shown[i].title,
                      days |-> (n - shown[i].datetime) \div DayLen,
                      priority |-> shown[i].priority]]] >>
        ELSE << >>

HighPrioritySection(tasks) ==
    LET ts == highPriorityTasks(tasks)
        shown == Slice(ts, RenderLimit)
    IN  IF Len(ts) > 0
        THEN << [title |-> "HIGH PRIORITY", count |-> Len(ts),
                 items |-> [i \in 1..Len(shown) |->
                     [title |-> shown[i].title, priority |-> shown[i].priority]]] >>
        ELSE << >>

UpcomingSectionElse(tasks, n) ==
    LET ts == upcomingTasks(tasks, n)
    IN  IF Len(todayTasks(tasks, n)) = 0 /\ Len(ts) > 0
        THEN << [title |-> "UPCOMING", count |-> Len(ts),
                 items |-> [i \in 1..Len(ts) |->
                     [title |-> ts[i].title, date |-> DateString(ts[i].datetime),
                      priority |-> ts[i].priority]]] >>
        ELSE << >>

UpcomingSection(tasks, n) ==
    LET ts == upcomingTasks(tasks, n)
    IN  IF Len(ts) > 0
        THEN << [title |-> "UPCOMING", count |-> Len(ts),
                 items |-> [i \in 1..Len(ts) |->
                     [title |-> ts[i].title, date |-> DateString(ts[i].datetime),
                      priority |-> ts[i].priority]]] >>
        ELSE << >>

ActivitySection(activity) ==
    IF Len(activity) > 0
    THEN << [title |-> "RECENT ACTIVITY", count |-> Len(activity),
             items |-> [i \in 1..Len(activity) |->
                 [description |-> activity[i].description]]] >>
    ELSE << >>

buildRAGPrompt(userMessage, data, n) ==
    [kind |-> "rag",
     name |-> IF data.profile.full_name # "" THEN data.profile.full_name ELSE "User",
     total |-> Len(data.tasks),
     completed |-> Len(completedTasks(data.tasks)),
     incomplete |-> Len(incompleteTasks(data.tasks)),
     streak |-> data.stats.current_streak_days,
     allTime |-> data.stats.tasks_completed_total,
     sections |-> TodaySection(data.tasks, n) \o OverdueSection(data.tasks, n)
                  \o HighPrioritySection(data.tasks) \o UpcomingSection(data.tasks, n)
                  \o ActivitySection(data.activity),
     userMessage |-> userMessage]

SimplePrompt(userMessage) == [kind |-> "simple", userMessage |-> userMessage]

HasSection(p, title) ==
    p.kind = "rag" /\ \E i \in 1..Len(p.sections) : p.sections[i].title = title

----------------------------------------------------------------------------
(* The tasks table, as `.order('datetime', { ascending: true })` delivers it:
   ascending by datetime, null datetimes last. *)

Ascending(dt) ==
    \A i \in 1..(Len(dt) - 1) :
        \/ dt[i + 1] = NoDate
        \/ (dt[i] # NoDate /\ dt[i] <= dt[i + 1])

TaskRow(i, d, c) ==
    [title |-> i, datetime |-> d, completed |-> c,
     priority |-> Priorities[(i % Len(Priorities)) + 1]]

TaskLists ==
    UNION { { [i \in 1..len |-> TaskRow(i, dt[i], i \in done)] :
                dt \in { f \in [1..len -> Times \cup {NoDate}] : Ascending(f) },
                done \in { S \in SUBSET (1..len) : Cardinality(S) <= MaxCompleted } } :
            len \in 0..MaxTasks }

InitPrompt ==
    /\ pc = "augment"
    /\ message = "hi"
    /\ userId = "u1"
    /\ apiKey = TRUE
    /\ numModels = 1
    /\ \E ts \in TaskLists :
          /\ db = [profile |-> [full_name |-> "Ann"], tasks |-> ts,
                   stats |-> EmptyStats, activity |-> << >>]
          /\ userData = [profile |-> [full_name |-> "Ann"], tasks |-> ts,
                         stats |-> EmptyStats, activity |-> << >>]
    /\ readIdx = 0
    /\ now = 0
    /\ prompt = NoPrompt
    /\ modelIdx = 0
    /\ lastError = NoError
    /\ aiResponse = NoText
    /\ response = NoResponse
    /\ caught = NoError
    /\ calls = << >>
    /\ reads = << >>
    /\ writes = << >>
    /\ history = << >>
    /\ served = 0

BuildPrompt ==
    /\ pc = "augment"
    /\ \E n \in Times :
          /\ now' = n
          /\ prompt' = buildRAGPrompt(message, userData, n)
    /\ pc' = "built"
    /\ UNCHANGED << message, userId, apiKey, numModels, db, readIdx, userData, modelIdx,
                    lastError, aiResponse, response, caught, calls, reads, writes,
                    history, served >>

NextPrompt == BuildPrompt

SpecPrompt == InitPrompt /\ [][NextPrompt]_vars
----------------------------------------------------------------------------
(* The chat handler *)

MissingKey == [kind |-> "GEMINI_API_KEY not found", model |-> 0]
StoreError(i) == [kind |-> "store", model |-> i]
HttpError(i) == [kind |-> "http", model |-> i]
TransportError(i) == [kind |-> "transport", model |-> i]
Undefined == [kind |-> "undefined", model |-> 0]

\* `lastError?.message`
ErrorMessage(e) == IF e = NoError THEN Undefined ELSE e

AllModelsFailed(e) ==
    [kind |-> "All models failed. Last error: ", model |-> 0, last |-> ErrorMessage(e)]

Tables == << "profile", "tasks", "stats", "activity" >>

ReadOutcomes == { "data", "empty", "throw" }
BackendOutcomes == { "ok", "http", "transport", "empty" }
WriteOutcomes == { "ok", "error", "throw" }

SampleTasks == << TaskRow(1, 1, FALSE), TaskRow(2, MaxTime, FALSE) >>

\* the instants at which the handler's turns build their prompt
SampleNows == { 0, 1 }

SampleDbs ==
    { [profile |-> [full_name |-> "Ann"], tasks |-> ts,
       stats |-> [current_streak_days |-> 3, tasks_completed_total |-> 7],
       activity |-> << [description |-> "a1"] >>] : ts \in { << >>, SampleTasks } }

Init ==
    /\ pc = "idle"
    /\ message = ""
    /\ userId = ""
    /\ apiKey \in BOOLEAN
    /\ numModels \in 1..MaxModels
    /\ db \in SampleDbs
    /\ readIdx = 0
    /\ userData = EmptyUserData
    /\ now = 0
    /\ prompt = NoPrompt
    /\ modelIdx = 0
    /\ lastError = NoError
    /\ aiResponse = NoText
    /\ response = NoResponse
    /\ caught = NoError
    /\ calls = << >>
    /\ reads = << >>
    /\ writes = << >>
    /\ history = << >>
    /\ served = 0

\* `if (userId)` of the retrieval branch
UseRAGAlways(u) == TRUE
UseRAG(u) == u # ""

\* `if (userId)` of the history branch
ShouldSaveAlways(u) == TRUE
ShouldSave(u) == u # ""

\* the body the catch block of the handler sends
ResponseOnErrorLeaks(error) == [k |-> error.kind, m |-> error.model]
ResponseOnError(error) == FallbackMessage

\* the body sent after `await saveConversation(...)`, whose try/catch absorbs a throw
ResponseAfterSaveUncaught(outcome, text) ==
    IF outcome = "throw" THEN FallbackMessage ELSE text
ResponseAfterSave(outcome, text) == text

\* callGemini: whether a reply makes the loop return its text
IsSuccessNoTextCheck(outcome) == outcome \in { "ok", "empty" }
IsSuccess(outcome) == outcome = "ok"

\* callGemini: lastError after a failed candidate
NextLastError(outcome, le, i) ==
    CASE outcome = "http" -> HttpError(i)
      [] outcome = "transport" -> TransportError(i)
      [] OTHER -> le

\* the handler from `await callGemini(prompt)` to callGemini's first fetch
EnterGemini(p) ==
    /\ prompt' = p
    /\ IF ~apiKey
       THEN /\ caught' = MissingKey
            /\ response' = ResponseOnError(MissingKey)
            /\ pc' = "done"
            /\ UNCHANGED << modelIdx, lastError, calls >>
       ELSE /\ pc' = "generate"
            /\ modelIdx' = 1
            /\ lastError' = NoError
            /\ calls' = Append(calls, [model |-> 1, outcome |-> "pending"])
            /\ UNCHANGED << caught, response >>

ReceiveChat(m, u) ==
    /\ pc = "idle"
    /\ served < MaxRequests
    /\ served' = served + 1
    /\ message' = m
    /\ userId' = u
    /\ IF UseRAG(u)
       THEN /\ pc' = "retrieve"
            /\ readIdx' = 1
            /\ reads' = << [table |-> Tables[1], outcome |-> "pending"] >>
            /\ UNCHANGED << prompt, caught, response, modelIdx, lastError, calls >>
       ELSE /\ EnterGemini(SimplePrompt(m))
            /\ UNCHANGED << readIdx, reads >>
    /\ UNCHANGED << apiKey, numModels, db, userData, now, aiResponse, writes, history >>

ReadReply(outcome) ==
    /\ pc = "retrieve"
    /\ reads' = [reads EXCEPT ![readIdx].outcome = outcome] \o
                (IF outcome # "throw" /\ readIdx < Len(Tables)
                 THEN << [table |-> Tables[readIdx + 1], outcome |-> "pending"] >>
                 ELSE << >>)
    /\ IF outcome = "throw"
       THEN /\ caught' = StoreError(readIdx)
            /\ response' = ResponseOnError(StoreError(readIdx))
            /\ pc' = "done"
            /\ readIdx' = 0
            /\ UNCHANGED << userData, now, prompt, modelIdx, lastError, calls >>
       ELSE LET ud == IF outcome = "data"
                      THEN [userData EXCEPT ![Tables[readIdx]] = db[Tables[readIdx]]]
                      ELSE userData
            IN  /\ userData' = ud
                /\ IF readIdx < Len(Tables)
                   THEN /\ readIdx' = readIdx + 1
                        /\ UNCHANGED << now, prompt, pc, caught, response, modelIdx,
                                        lastError, calls >>
                   ELSE /\ readIdx' = 0
                        /\ \E n \in SampleNows :
                              /\ now' = n
                              /\ EnterGemini(buildRAGPrompt(message, ud, n))
    /\ UNCHANGED << message, userId, apiKey, numModels, db, aiResponse, writes, history,
                    served >>

BackendReply(outcome) ==
    /\ pc = "generate"
    /\ IF IsSuccess(outcome)
       THEN /\ aiResponse' = IF outcome = "ok" THEN GeneratedText(modelIdx) ELSE NoText
            /\ calls' = [calls EXCEPT ![Len(calls)].outcome = outcome]
            /\ modelIdx' = 0
            /\ IF ShouldSave(userId)
               THEN /\ pc' = "saving"
                    /\ writes' = Append(writes,
                          [row |-> [user_id |-> userId, message |-> message,
                                    response |-> aiResponse'],
                           state |-> "pending"])
                    /\ UNCHANGED response
               ELSE /\ pc' = "done"
                    /\ response' = aiResponse'
                    /\ UNCHANGED writes
            /\ UNCHANGED << lastError, caught >>
       ELSE /\ lastError' = NextLastError(outcome, lastError, modelIdx)
            /\ IF modelIdx < numModels
               THEN /\ modelIdx' = modelIdx + 1
                    /\ calls' = Append([calls EXCEPT ![Len(calls)].outcome = outcome],
                                       [model |-> modelIdx + 1, outcome |-> "pending"])
                    /\ UNCHANGED << pc, caught, response >>
               ELSE /\ modelIdx' = 0
                    /\ calls' = [calls EXCEPT ![Len(calls)].outcome = outcome]
                    /\ caught' = AllModelsFailed(lastError')
                    /\ response' = ResponseOnError(AllModelsFailed(lastError'))
                    /\ pc' = "done"
            /\ UNCHANGED << aiResponse, writes >>
    /\ UNCHANGED << message, userId, apiKey, numModels, db, readIdx, userData, now,
                    prompt, reads, history, served >>

WriteReply(outcome) ==
    /\ pc = "saving"
    /\ writes' = [writes EXCEPT ![Len(writes)].state = outcome]
    /\ history' = IF outcome = "ok"
                  THEN Append(history, writes[Len(writes)].row)
                  ELSE history
    /\ response' = ResponseAfterSave(outcome, aiResponse)
    /\ pc' = "done"
    /\ UNCHANGED << message, userId, apiKey, numModels, db, readIdx, userData, now,
                    prompt, modelIdx, lastError, aiResponse, caught, calls, reads,
                    served >>

\* the request is over; its locals are gone, the store keeps the history
NextRequest ==
    /\ pc = "done"
    /\ pc' = "idle"
    /\ message' = ""
    /\ userId' = ""
    /\ readIdx' = 0
    /\ userData' = EmptyUserData
    /\ now' = 0
    /\ prompt' = NoPrompt
    /\ modelIdx' = 0
    /\ lastError' = NoError
    /\ aiResponse' = NoText
    /\ response' = NoResponse
    /\ caught' = NoError
    /\ calls' = << >>
    /\ reads' = << >>
    /\ writes' = << >>
    /\ UNCHANGED << apiKey, numModels, db, history, served >>

Next ==
    \/ \E m \in { "", "hi" }, u \in { "", "u1" } : ReceiveChat(m, u)
    \/ \E o \in ReadOutcomes : ReadReply(o)
    \/ \E o \in BackendOutcomes : BackendReply(o)
    \/ \E o \in WriteOutcomes : WriteReply(o)
    \/ NextRequest

Spec == Init /\ [][Next]_vars

\* The event loop runs every continuation whose awaited reply arrived; the store's
\* reads and the backend are taken to answer.  Nothing makes the store answer the
\* history insert.
FairSpec ==
    /\ Init
    /\ [][Next]_vars
    /\ WF_vars(\E o \in ReadOutcomes : ReadReply(o))
    /\ WF_vars(\E o \in BackendOutcomes : BackendReply(o))
    /\ WF_vars(NextRequest)
----------------------------------------------------------------------------
(* Properties *)

Failed(o) == o \in { "http", "transport", "empty" }
ReadThrew == \E i \in 1..Len(reads) : reads[i].outcome = "throw"
GenerationSucceeded == \E i \in 1..Len(calls) : calls[i].outcome = "ok"
Responded == response # NoResponse

C2_FirstSuccessWins ==
    /\ \A i \in 1..Len(calls) : calls[i].model = i
    /\ Len(calls) <= numModels
    /\ (pc \in { "saving", "done" } /\ caught = NoError) =>
          /\ Len(calls) >= 1
          /\ calls[Len(calls)].outcome = "ok"
          /\ aiResponse = GeneratedText(Len(calls))
          /\ \A j \in 1..(Len(calls) - 1) : Failed(calls[j].outcome)

C2_Witness ==
    /\ pc = "done" /\ numModels >= 2 /\ Len(calls) = 2
    /\ calls[1].outcome = "http" /\ calls[2].outcome = "ok"
    /\ aiResponse = GeneratedText(2) /\ response = GeneratedText(2)

\* C3 (as claimed): when every candidate fails, the failure raised carries the
\* error of the last candidate tried, never an earlier one's and never undefined.
C3_LastErrorIsLastCandidates ==
    (caught.kind = AllModelsFailed(NoError).kind) =>
        /\ caught.last # Undefined
        /\ caught.last.model = calls[Len(calls)].model

\* C4 (as claimed): a read of retrieveUserData that throws is absorbed: the turn
\* still builds a prompt and calls the backend, and the fallback message is sent
\* only if generation itself fails.
C4_RetrievalThrowAbsorbed ==
    (pc = "done" /\ ReadThrew /\ apiKey) =>
        /\ prompt # NoPrompt
        /\ Len(calls) >= 1
        /\ (response = FallbackMessage => ~GenerationSucceeded)
        /\ caught.kind # StoreError(0).kind

\* C5: when generation succeeded the response body is the generated text,
\* whether the history insert succeeded, returned an error or threw.
C5_WriteOutcomeNeverChangesResponse ==
    (Responded /\ GenerationSucceeded) =>
        /\ response = aiResponse
        /\ response = GeneratedText(Len(calls))
        /\ caught = NoError
        /\ \A i \in 1..Len(writes) : writes[i].state \in WriteOutcomes

C5_Witness ==
    /\ pc = "done" /\ Len(writes) = 1 /\ writes[1].state = "throw"
    /\ response = GeneratedText(1) /\ history = << >>

\* C6 (as claimed): the response does not wait for the history write: once the
\* write is scheduled the response is sent even if the write never completes.
C6_ResponseNotHeldByWrite == (pc = "saving") ~> Responded

\* C7: the response body is the backend's text, verbatim, when generation
\* succeeded, and the fixed fallback message when a step failed; the text of an
\* internal error is never sent.
C7_ResponseIsTextOrFallback ==
    Responded =>
        /\ \/ /\ caught = NoError
              /\ GenerationSucceeded
              /\ response = GeneratedText(Len(calls))
           \/ /\ caught # NoError
              /\ response = FallbackMessage
        /\ response.k \notin { MissingKey.kind, AllModelsFailed(NoError).kind,
                               StoreError(0).kind, HttpError(0).kind,
                               TransportError(0).kind, Undefined.kind }

C7_Witness ==
    /\ pc = "done" /\ caught = AllModelsFailed(TransportError(numModels))
    /\ response = FallbackMessage

\* C10: a history write is issued only for a request with a userId, only after
\* the backend returned text, and stores the text sent to the user; no write is
\* issued when generation fails or when there is no userId.
C10_WriteOnlyAfterGeneration ==
    /\ Len(writes) <= 1
    /\ \A i \in 1..Len(writes) :
          /\ userId # ""
          /\ GenerationSucceeded
          /\ writes[i].row = [user_id |-> userId, message |-> message,
                              response |-> aiResponse]
          /\ (Responded => response = writes[i].row.response)
    /\ (userId = "" \/ response = FallbackMessage \/ caught # NoError) => writes = << >>
    /\ Len(history) <= served
    /\ \A i \in 1..Len(history) :
          history[i].user_id # "" /\ history[i].response.k = GeneratedText(0).k

C10_Witness ==
    /\ pc = "done" /\ userId = "u1" /\ response = GeneratedText(1)
    /\ Len(writes) = 1 /\ writes[1].state = "ok"
    /\ history = << [user_id |-> "u1", message |-> message, response |-> response] >>

----------------------------------------------------------------------------
(* Properties of buildRAGPrompt, for the task list userData.tasks and `now` *)

DueToday(t) == t.datetime # NoDate /\ t.datetime \div DayLen = now \div DayLen /\ ~t.completed
DueLater(t) == t.datetime # NoDate /\ t.datetime > now /\ ~t.completed
Rows == { userData.tasks[i] : i \in 1..Len(userData.tasks) }

C9_UpcomingBucket ==
    (pc = "built") =>
        LET up == upcomingTasks(userData.tasks, now)
            Q == { i \in 1..Len(userData.tasks) : DueLater(userData.tasks[i]) }
        IN  /\ Len(up) <= 5
            /\ Len(up) = (IF Cardinality(Q) < 5 THEN Cardinality(Q) ELSE 5)
            /\ \A j \in 1..Len(up) : up[j] \in Rows /\ DueLater(up[j])
            /\ \A j \in 1..(Len(up) - 1) : up[j].datetime <= up[j + 1].datetime
            /\ \A j \in 1..(Len(up) - 1) : up[j].title < up[j + 1].title
            /\ \A i \in Q :
                  \/ \E j \in 1..Len(up) : up[j] = userData.tasks[i]
                  \/ \A j \in 1..Len(up) : up[j].datetime <= userData.tasks[i].datetime
            /\ (HasSection(prompt, "UPCOMING") <=> Len(up) > 0)
            /\ \A k \in 1..Len(prompt.sections) :
                  prompt.sections[k].title = "UPCOMING" =>
                      /\ prompt.sections[k].count = Len(up)
                      /\ Len(prompt.sections[k].items) = Len(up)

C9_Witness ==
    /\ pc = "built"
    /\ Cardinality({ i \in 1..Len(userData.tasks) : DueLater(userData.tasks[i]) }) > 5
    /\ Len(upcomingTasks(userData.tasks, now)) = 5
    /\ HasSection(prompt, "UPCOMING")

====
